---- MODULE Spec2Model ----
(***************************************************************************)
(* Recording-session lifecycle of hotspeech (src/hotspeech/app/audio.py)   *)
(* and the `stop` command of src/hotspeech/main.py.                        *)
(*                                                                         *)
(* One interpreter process P1 holds the module globals recording_process,  *)
(* recording_thread, output_file_path and notification_process.  Threads   *)
(* of P1 are: callers of start_recording_with_ui, the recording threads    *)
(* they create (recording_thread_func), and callers of                     *)
(* stop_recording_from_hotkey.  Encoder (ffmpeg) and notifier (zenity)     *)
(* child processes are the environment: they exit when they choose to.     *)
(* A blocking call with a timeout (communicate, wait) is two steps: the    *)
(* call begins, and later it either returns (the child has exited) or      *)
(* raises TimeoutExpired (the child is still running).                     *)
(*                                                                         *)
(* A recording thread and the Popen handle of the encoder it spawned carry *)
(* the same identifier; so do a thread and the zenity handle it spawned.   *)
(***************************************************************************)
EXTENDS Integers, Sequences, FiniteSets

\* Number of start_recording_with_ui calls (one per caller thread).
NStarts == 2
\* Number of stop_recording_from_hotkey calls (one per caller thread).
NStops == 2
\* Polling iterations (time.sleep(0.1)) a monitoring loop is followed for.
MaxTicks == 2
\* config["recording"]["max_duration_seconds"], in polling intervals.
MaxDurationTicks == 1

\* Python's None, where a handle or a path is expected.
None == -1
\* The output path of the session, as on_complete receives it.
PATH == 1
\* bool return values, and a call that has not returned yet.
PyTrue == "True"
PyFalse == "False"
Pending == "pending"

Sessions == 1..NStarts
Hotkeys == 1..NStops
\* The synchronous AudioRecorder.record_audio call has its own identifier.
SyncId == 0
Handles == Sessions \cup {SyncId}

VARIABLES
    recording_process,      \* global: None or the encoder handle
    recording_thread,       \* global: None or the Thread object
    output_file_path,       \* global: None or the output file of a session
    notification_process,   \* global: None or the zenity handle
    cpc,                    \* position of each start_recording_with_ui call
    pc,                     \* position of each recording thread
    notification_proc,      \* local of recording_thread_func
    stop_arg,               \* argument of the stop_recording call in progress
    counter,                \* polling iterations done by the monitoring loop
    ticks,                  \* how many polling iterations the counters follow
    reported,               \* values passed to on_complete / returned
    encoder,                \* the ffmpeg child processes and their Popen state
    notifier,               \* the zenity child processes
    xmessage,               \* sessions whose xmessage notifier was spawned
    artifact,               \* the output file of each session
    hpc,                    \* position of each stop_recording_from_hotkey call
    hproc,                  \* encoder handle the call is communicating with
    hres,                   \* its return value
    hactive,                \* was a recording thread alive when it was called
    cli,                    \* outcome of `hotspeech stop` in a second process
    dpc,                    \* position of an AudioRecorder.start_recording call
    pactl_info,             \* what `pactl info` answers
    pactl_sources,          \* what `pactl list sources short` answers
    default_source,         \* local of start_recording
    ffmpeg_input,           \* the -i argument of the ffmpeg command line
    tpc,                    \* position of a Transcriber and its transcribe call
    config,                 \* config["transcription"]
    transcriber,            \* self.backend and self.model of the Transcriber
    openai_api_key,         \* is the module attribute openai.api_key set
    warnings,               \* the WARNING lines the Transcriber has printed
    request,                \* the model argument of transcribe
    backend_to_use,         \* local of transcribe
    result,                 \* the dict transcribe builds and returns
    calls,                  \* the backend invocations made by the call
    ppc,                    \* position of record_and_transcribe and its callback
    app_config,             \* config["clipboard"], config["storage"]
    db,                     \* the Database: its connection and the recordings table
    files,                  \* the audio files that exist
    clipboard,              \* the texts handed to Clipboard.copy_to_clipboard
    web,                    \* the web server: position, request served, response
    cleanup                 \* a `hotspeech-cli cleanup` run and what it deleted

vars == <<recording_process, recording_thread, output_file_path,
          notification_process, cpc, pc, notification_proc, stop_arg, counter,
          reported, encoder, notifier, xmessage, artifact, hpc, hproc, hres,
          hactive, cli, ticks, dpc, pactl_info, pactl_sources, default_source,
          ffmpeg_input, tpc, config, transcriber, openai_api_key, warnings,
          request, backend_to_use, result, calls, ppc, app_config, db, files,
          clipboard, web, cleanup>>

globals == <<recording_process, recording_thread, output_file_path,
             notification_process>>
children == <<encoder, notifier, xmessage, artifact>>
hotkeys == <<hpc, hproc, hres, hactive>>
threads == <<pc, notification_proc, stop_arg, counter, reported>>
resolver == <<dpc, pactl_info, pactl_sources, default_source, ffmpeg_input>>
\* The state of the components beside the recording session.
transcription == <<tpc, config, transcriber, openai_api_key, warnings, request,
                   backend_to_use, result, calls>>
pipeline == <<ppc, app_config, db, files, clipboard, web, cleanup>>
elsewhere == <<resolver, transcription, pipeline>>
\* The state of the recording session and of the stop requests.
recorder == <<globals, cpc, threads, children, hotkeys, cli, ticks>>

\* Module globals of a freshly imported hotspeech.app.audio.
ModuleGlobals ==
    [recording_process |-> None, recording_thread |-> None,
     output_file_path |-> None, notification_process |-> None]

NoEncoder == [st |-> "none", commStarted |-> FALSE, qSent |-> 0, termSent |-> FALSE]

\* The state after import, with `starts` calls of start_recording_with_ui
\* and `stops` calls of stop_recording_from_hotkey still to be made, the
\* loop counters followed for `followed` polling iterations.
InitWith(starts, stops, followed) ==
    /\ recording_process = ModuleGlobals.recording_process
    /\ recording_thread = ModuleGlobals.recording_thread
    /\ output_file_path = ModuleGlobals.output_file_path
    /\ notification_process = ModuleGlobals.notification_process
    /\ cpc = [c \in Sessions |-> IF c <= starts THEN "idle" ELSE "unused"]
    /\ pc = [s \in Handles |-> "unborn"]
    /\ notification_proc = [s \in Handles |-> None]
    /\ stop_arg = [s \in Handles |-> None]
    /\ counter = [s \in Handles |-> 0]
    /\ reported = [s \in Handles |-> <<>>]
    /\ encoder = [s \in Handles |-> NoEncoder]
    /\ notifier = [s \in Handles |-> "none"]
    /\ xmessage = {}
    /\ artifact = [s \in Handles |-> "missing"]
    /\ hpc = [h \in Hotkeys |-> IF h <= stops THEN "idle" ELSE "unused"]
    /\ hproc = [h \in Hotkeys |-> None]
    /\ hres = [h \in Hotkeys |-> Pending]
    /\ hactive = [h \in Hotkeys |-> FALSE]
    /\ cli = Pending
    /\ ticks = followed

\* No start_recording call is followed through its device resolution.
NoResolution ==
    /\ dpc = "unused"
    /\ pactl_info = [ok |-> FALSE, lines |-> <<>>]
    /\ pactl_sources = [ok |-> FALSE, lines |-> <<>>]
    /\ default_source = "<unbound>"
    /\ ffmpeg_input = "<unbound>"

\* None where a str is expected.
Null == "None"
\* None or "" where a model identifier is expected.
NoModel == <<>>

\* No Transcriber is constructed.
NoTranscription ==
    /\ tpc = "unused"
    /\ config = [backend |-> "local", model |-> NoModel, api_key |-> FALSE]
    /\ transcriber = [backend |-> "local", model |-> NoModel]
    /\ openai_api_key = FALSE
    /\ warnings = <<>>
    /\ request = NoModel
    /\ backend_to_use = "local"
    /\ result = [transcription |-> Null, model_used |-> NoModel,
                 status |-> "error", error_message |-> <<>>]
    /\ calls = <<>>

\* A Database that was not constructed: no connection, an empty table.
NoDatabase == [conn |-> Null, now |-> 0, seq |-> 0, rows |-> <<>>]

\* No response was sent.
NoResponse == [route |-> "", status_code |-> 0, body |-> <<>>]

\* The web server is not started and the command line tool is not run.
NoStore ==
    /\ web = [pc |-> "unused", recording_id |-> 0, model |-> NoModel, served |-> 0,
              response |-> NoResponse]
    /\ cleanup = [pc |-> "unused", keep_last_n |-> 0, deleted_paths |-> {}]

\* record_and_transcribe is not called.
NoPipeline ==
    /\ ppc = "unused"
    /\ app_config = [clipboard_enabled |-> FALSE, keep_last_n |-> 0]
    /\ db = NoDatabase
    /\ files = {}
    /\ clipboard = <<>>
    /\ NoStore

\* The state after import when the recording sessions are followed and the
\* other components are left alone.
InitSession(starts, stops, followed) ==
    /\ InitWith(starts, stops, followed)
    /\ NoResolution
    /\ NoTranscription
    /\ NoPipeline

Init == InitSession(NStarts, NStops, MaxTicks)

----------------------------------------------------------------------------
\* subprocess.Popen and threading.Thread, as the code uses them.

\* Popen.poll() is None
Running(p) == encoder[p].st = "running"

\* Thread.is_alive(): started and not yet finished.
IsAlive(t) == pc[t] \notin {"unborn", "created", "done"}

\* Threads blocked inside communicate() on handle p.
InCommunicate(p) ==
    {<<"thread", s>> : s \in {t \in Handles : pc[t] = "stop_q" /\ stop_arg[t] = p}}
        \cup {<<"hotkey", h>> : h \in {k \in Hotkeys : hpc[k] = "comm" /\ hproc[k] = p}}

\* The ways communicate(input=b"q", timeout=2) can begin on handle p.
\* "raise": ValueError (input after communication started, or stdin already
\* closed by a communicate running in another thread); "write": the control
\* byte is written and stdin closed; "join": the byte was already taken from
\* the shared input buffer by the concurrent call, this call only waits.
\* Two threads inside communicate on one Popen object race on its fields:
\* every outcome is possible.
CommunicateBegin(p) ==
    IF encoder[p].commStarted THEN {"raise"}
    ELSE IF InCommunicate(p) # {} THEN {"raise", "write", "join"}
    ELSE {"write"}

QWritten(e) == [e EXCEPT !.qSent = @ + 1]
CommFinished(e) == [e EXCEPT !.commStarted = TRUE]
Terminated(e) == [e EXCEPT !.termSent = TRUE]

----------------------------------------------------------------------------
\* start_recording_with_ui, the caller's side.

\* A guard that trusts the global alone:
\*   if recording_thread: return
AlreadyRecordingNoLiveness == recording_thread # None

\* "Already recording": the guard that rejects a start.
AlreadyRecording == recording_thread # None /\ IsAlive(recording_thread)

\* if recording_thread and recording_thread.is_alive(): return
StartCheck(c) ==
    /\ cpc[c] = "idle"
    /\ cpc' = [cpc EXCEPT ![c] = IF AlreadyRecording THEN "rejected" ELSE "passed"]
    /\ UNCHANGED <<globals, threads, children, hotkeys, cli, ticks, elsewhere>>

\* recording_thread = threading.Thread(target=recording_thread_func)
StartCreate(c) ==
    /\ cpc[c] = "passed"
    /\ recording_thread' = c
    /\ pc' = [pc EXCEPT ![c] = "created"]
    /\ cpc' = [cpc EXCEPT ![c] = "created"]
    /\ UNCHANGED <<recording_process, output_file_path, notification_process,
                   notification_proc, stop_arg, counter, reported, children,
                   hotkeys, cli, ticks, elsewhere>>

\* recording_thread.start(): the global is read again; starting a Thread
\* object a second time raises RuntimeError to the caller.
StartThread(c) ==
    /\ cpc[c] = "created"
    /\ IF pc[recording_thread] = "created"
       THEN /\ pc' = [pc EXCEPT ![recording_thread] = "start"]
            /\ cpc' = [cpc EXCEPT ![c] = "returned"]
       ELSE /\ cpc' = [cpc EXCEPT ![c] = "raised"]
            /\ UNCHANGED pc
    /\ UNCHANGED <<globals, notification_proc, stop_arg, counter, reported,
                   children, hotkeys, cli, ticks, elsewhere>>

----------------------------------------------------------------------------
\* recording_thread_func.

\* output_file, process = recorder.start_recording(); the two globals are
\* set.  Popen raises when ffmpeg cannot be spawned.
ThreadStartRecording(s) ==
    /\ pc[s] = "start"
    /\ \E spawned \in BOOLEAN :
        IF spawned
        THEN /\ encoder' = [encoder EXCEPT ![s] = [NoEncoder EXCEPT !.st = "running"]]
             /\ recording_process' = s
             /\ output_file_path' = s
             /\ pc' = [pc EXCEPT ![s] = "notify"]
        ELSE /\ pc' = [pc EXCEPT ![s] = "except"]
             /\ UNCHANGED <<encoder, recording_process, output_file_path, ticks>>
    /\ UNCHANGED <<recording_thread, notification_process, cpc, notification_proc,
                   stop_arg, counter, reported, notifier, xmessage, artifact,
                   hotkeys, cli, ticks, elsewhere>>

\* notification_proc = show_recording_notification(): zenity is spawned into
\* the global notification_process, notify-send is run, xmessage is spawned
\* (and its handle dropped) when neither worked; the global is returned.
ThreadNotify(s) ==
    /\ pc[s] = "notify"
    /\ \E zenity \in BOOLEAN, notify_send \in BOOLEAN, xmsg \in BOOLEAN :
        /\ (zenity \/ notify_send) => ~xmsg
        /\ notification_process' = IF zenity THEN s ELSE notification_process
        /\ notifier' = IF zenity THEN [notifier EXCEPT ![s] = "running"] ELSE notifier
        /\ xmessage' = IF xmsg THEN xmessage \cup {s} ELSE xmessage
        /\ notification_proc' = [notification_proc EXCEPT ![s] = notification_process']
    /\ pc' = [pc EXCEPT ![s] = "loop"]
    /\ UNCHANGED <<recording_process, recording_thread, output_file_path, cpc,
                   stop_arg, counter, reported, encoder, artifact, hotkeys, cli, ticks, elsewhere>>

\* while recording_process and recording_process.poll() is None
LoopCondition == recording_process # None /\ Running(recording_process)

ThreadLoop(s) ==
    /\ pc[s] = "loop"
    /\ pc' = [pc EXCEPT ![s] = IF LoopCondition THEN "body" ELSE "artifact"]
    /\ UNCHANGED <<globals, cpc, notification_proc, stop_arg, counter, reported,
                   children, hotkeys, cli, ticks, elsewhere>>

\* The test without its first operand, a missing notifier counting as a
\* closed one:
\*   if notification_proc is None or notification_proc.poll() is not None
NotificationClosedOrMissing(s) ==
    notification_proc[s] = None \/ notifier[notification_proc[s]] # "running"

\* if notification_proc and notification_proc.poll() is not None
NotificationClosed(s) ==
    notification_proc[s] # None /\ notifier[notification_proc[s]] # "running"

\* AudioRecorder.stop_recording(process): if process and process.poll() is None
StopNeeded(p) == p # None /\ Running(p)

\* Where a thread continues after stop_recording returned / raised.
AfterStop(s) == IF s = SyncId THEN "ra_check" ELSE "artifact"
OnException(s) == IF s = SyncId THEN "ra_except" ELSE "except"

\* stop_recording begins: process.communicate(input=b"q", timeout=2)
StopRecordingBegin(s, p) ==
    IF StopNeeded(p)
    THEN \E o \in CommunicateBegin(p) :
           /\ pc' = [pc EXCEPT ![s] = IF o = "raise" THEN OnException(s) ELSE "stop_q"]
           /\ stop_arg' = [stop_arg EXCEPT ![s] = IF o = "raise" THEN @ ELSE p]
           /\ encoder' = IF o = "write" THEN [encoder EXCEPT ![p] = QWritten(@)]
                         ELSE encoder
    ELSE /\ pc' = [pc EXCEPT ![s] = AfterStop(s)]
         /\ UNCHANGED <<stop_arg, encoder, ticks>>

\* counter += 1 after time.sleep(0.1); the count is followed up to `ticks`.
Tick(n) == IF n < ticks THEN n + 1 ELSE n

\* One iteration of the monitoring loop: stop and break when the notifier
\* was closed, else time.sleep(0.1); counter += 1.
ThreadBody(s) ==
    /\ pc[s] = "body"
    /\ IF NotificationClosed(s)
       THEN /\ StopRecordingBegin(s, recording_process)
            /\ UNCHANGED counter
       ELSE /\ counter' = [counter EXCEPT ![s] = Tick(@)]
            /\ pc' = [pc EXCEPT ![s] = "loop"]
            /\ UNCHANGED <<stop_arg, encoder, ticks>>
    /\ UNCHANGED <<globals, cpc, notification_proc, reported, notifier, xmessage,
                   artifact, hotkeys, cli, ticks, elsewhere>>

\* communicate returns: the encoder exited within the 2 s.
StopCommReturn(s) ==
    /\ pc[s] = "stop_q"
    /\ ~Running(stop_arg[s])
    /\ encoder' = [encoder EXCEPT ![stop_arg[s]] = CommFinished(@)]
    /\ pc' = [pc EXCEPT ![s] = AfterStop(s)]
    /\ UNCHANGED <<globals, cpc, notification_proc, stop_arg, counter, reported,
                   notifier, xmessage, artifact, hotkeys, cli, ticks, elsewhere>>

\* except subprocess.TimeoutExpired: process.terminate(); process.wait(timeout=2)
StopCommTimeout(s) ==
    /\ pc[s] = "stop_q"
    /\ Running(stop_arg[s])
    /\ encoder' = [encoder EXCEPT ![stop_arg[s]] = Terminated(CommFinished(@))]
    /\ pc' = [pc EXCEPT ![s] = "stop_term"]
    /\ UNCHANGED <<globals, cpc, notification_proc, stop_arg, counter, reported,
                   notifier, xmessage, artifact, hotkeys, cli, ticks, elsewhere>>

\* process.wait(timeout=2) returns: termination confirmed.
StopWaitReturn(s) ==
    /\ pc[s] = "stop_term"
    /\ ~Running(stop_arg[s])
    /\ pc' = [pc EXCEPT ![s] = AfterStop(s)]
    /\ UNCHANGED <<globals, cpc, notification_proc, stop_arg, counter, reported,
                   children, hotkeys, cli, ticks, elsewhere>>

\* process.wait(timeout=2) raises TimeoutExpired out of stop_recording.
StopWaitTimeout(s) ==
    /\ pc[s] = "stop_term"
    /\ Running(stop_arg[s])
    /\ pc' = [pc EXCEPT ![s] = OnException(s)]
    /\ UNCHANGED <<globals, cpc, notification_proc, stop_arg, counter, reported,
                   children, hotkeys, cli, ticks, elsewhere>>

\* os.path.exists(output_file) and os.path.getsize(output_file) > 0
ArtifactOk(s) == artifact[s] = "nonempty"

\* The artifact check and the on_complete call; an exception raised by the
\* callback is caught by the except clause below.
ThreadArtifact(s) ==
    /\ pc[s] = "artifact"
    /\ reported' = [reported EXCEPT ![s] = Append(@, IF ArtifactOk(s) THEN PATH ELSE None)]
    /\ \E raised \in BOOLEAN :
        pc' = [pc EXCEPT ![s] = IF raised THEN "except" ELSE "finally"]
    /\ UNCHANGED <<globals, cpc, notification_proc, stop_arg, counter, children,
                   hotkeys, cli, ticks, elsewhere>>

\* except Exception: on_complete(None)
ThreadExcept(s) ==
    /\ pc[s] = "except"
    /\ reported' = [reported EXCEPT ![s] = Append(@, None)]
    /\ pc' = [pc EXCEPT ![s] = "finally"]
    /\ UNCHANGED <<globals, cpc, notification_proc, stop_arg, counter, children,
                   hotkeys, cli, ticks, elsewhere>>

\* finally: recording_process.terminate() if it is still running
ThreadFinally(s) ==
    /\ pc[s] = "finally"
    /\ IF StopNeeded(recording_process)
       THEN /\ encoder' = [encoder EXCEPT ![recording_process] = Terminated(@)]
            /\ pc' = [pc EXCEPT ![s] = "fin_wait"]
       ELSE /\ pc' = [pc EXCEPT ![s] = "fin_notif"]
            /\ UNCHANGED encoder
    /\ UNCHANGED <<globals, cpc, notification_proc, stop_arg, counter, reported,
                   notifier, xmessage, artifact, hotkeys, cli, ticks, elsewhere>>

\* recording_process.wait(timeout=2): returns or raises, the exception is
\* caught and printed.
ThreadFinallyWait(s) ==
    /\ pc[s] = "fin_wait"
    /\ pc' = [pc EXCEPT ![s] = "fin_notif"]
    /\ UNCHANGED <<globals, cpc, notification_proc, stop_arg, counter, reported,
                   children, hotkeys, cli, ticks, elsewhere>>

\* notification_process.terminate() if it is still running: zenity dies of
\* SIGTERM; the wait(timeout=1) that follows cannot change the outcome.
TerminateNotifier(n) ==
    IF n # None /\ notifier[n] = "running"
    THEN [notifier EXCEPT ![n] = "exited"]
    ELSE notifier

ThreadFinallyNotif(s) ==
    /\ pc[s] = "fin_notif"
    /\ notifier' = TerminateNotifier(notification_process)
    /\ pc' = [pc EXCEPT ![s] = "fin_reset"]
    /\ UNCHANGED <<globals, cpc, notification_proc, stop_arg, counter, reported,
                   encoder, xmessage, artifact, hotkeys, cli, ticks, elsewhere>>

\* recording_process = None; notification_process = None.  The assignment
\* recording_thread = None binds a local of recording_thread_func: the
\* global declaration of the enclosing function does not reach it.
ThreadFinallyReset(s) ==
    /\ pc[s] = "fin_reset"
    /\ recording_process' = None
    /\ notification_process' = None
    /\ pc' = [pc EXCEPT ![s] = "done"]
    /\ UNCHANGED <<recording_thread, output_file_path, cpc, notification_proc,
                   stop_arg, counter, reported, children, hotkeys, cli, ticks, elsewhere>>

----------------------------------------------------------------------------
\* stop_recording_from_hotkey.  Every use of recording_process and of
\* notification_process in it is a fresh read of the global.

\* A recording thread of this process is running.
SessionActive == \E s \in Sessions : IsAlive(s)

\* A guard without the test of the global itself:
\*   if recording_process.poll() is None
NoProcessUnchecked(rp) == FALSE

\* not recording_process: the first operand of the guard fails.
NoProcess(rp) == rp = None

\* The call, up to the first operand of
\*   if recording_process and recording_process.poll() is None
\* A global that is None ends the call: return False.
HotkeyCall(h) ==
    /\ hpc[h] = "idle"
    /\ hactive' = [hactive EXCEPT ![h] = SessionActive]
    /\ IF NoProcess(recording_process)
       THEN /\ hpc' = [hpc EXCEPT ![h] = "done"]
            /\ hres' = [hres EXCEPT ![h] = PyFalse]
       ELSE /\ hpc' = [hpc EXCEPT ![h] = "poll"]
            /\ UNCHANGED hres
    /\ UNCHANGED <<globals, cpc, threads, children, hproc, cli, ticks, elsewhere>>

\* The second operand, recording_process.poll() is None.  It is evaluated
\* outside the try block: a global reset to None meanwhile raises
\* AttributeError to the caller.
HotkeyPoll(h) ==
    /\ hpc[h] = "poll"
    /\ IF recording_process = None
       THEN /\ hpc' = [hpc EXCEPT ![h] = "done"]
            /\ hres' = [hres EXCEPT ![h] = "AttributeError"]
       ELSE IF Running(recording_process)
       THEN /\ hpc' = [hpc EXCEPT ![h] = "try"]
            /\ UNCHANGED hres
       ELSE /\ hpc' = [hpc EXCEPT ![h] = "done"]
            /\ hres' = [hres EXCEPT ![h] = PyFalse]
    /\ UNCHANGED <<globals, cpc, threads, children, hproc, hactive, cli, ticks, elsewhere>>

\* recording_process.communicate(input=b"q", timeout=2) begins; whatever it
\* raises is caught by except Exception: return False.
HotkeyCommunicate(h) ==
    /\ hpc[h] = "try"
    /\ IF recording_process = None
       THEN /\ hpc' = [hpc EXCEPT ![h] = "done"]
            /\ hres' = [hres EXCEPT ![h] = PyFalse]
            /\ UNCHANGED <<hproc, encoder, ticks>>
       ELSE \E o \in CommunicateBegin(recording_process) :
            /\ hpc' = [hpc EXCEPT ![h] = IF o = "raise" THEN "done" ELSE "comm"]
            /\ hres' = [hres EXCEPT ![h] = IF o = "raise" THEN PyFalse ELSE @]
            /\ hproc' = [hproc EXCEPT ![h] = IF o = "raise" THEN @ ELSE recording_process]
            /\ encoder' = IF o = "write"
                          THEN [encoder EXCEPT ![recording_process] = QWritten(@)]
                          ELSE encoder
    /\ UNCHANGED <<globals, cpc, threads, notifier, xmessage, artifact, hactive, cli, ticks, elsewhere>>

\* communicate returns: the encoder exited within the 2 s.
HotkeyCommReturn(h) ==
    /\ hpc[h] = "comm"
    /\ ~Running(hproc[h])
    /\ encoder' = [encoder EXCEPT ![hproc[h]] = CommFinished(@)]
    /\ hpc' = [hpc EXCEPT ![h] = "notif"]
    /\ UNCHANGED <<globals, cpc, threads, notifier, xmessage, artifact, hproc,
                   hres, hactive, cli, ticks, elsewhere>>

\* What the call does when communicate raises TimeoutExpired: the handler is
\* except Exception: return False.
HotkeyOnTimeout(e) == CommFinished(e)

HotkeyCommTimeout(h) ==
    /\ hpc[h] = "comm"
    /\ Running(hproc[h])
    /\ encoder' = [encoder EXCEPT ![hproc[h]] = HotkeyOnTimeout(@)]
    /\ hpc' = [hpc EXCEPT ![h] = "done"]
    /\ hres' = [hres EXCEPT ![h] = PyFalse]
    /\ UNCHANGED <<globals, cpc, threads, notifier, xmessage, artifact, hproc, hactive, cli, ticks, elsewhere>>

\* The notifier is terminated if it is still running, notify-send is run,
\* return True.
HotkeyNotif(h) ==
    /\ hpc[h] = "notif"
    /\ notifier' = TerminateNotifier(notification_process)
    /\ hpc' = [hpc EXCEPT ![h] = "done"]
    /\ hres' = [hres EXCEPT ![h] = PyTrue]
    /\ UNCHANGED <<globals, cpc, threads, encoder, xmessage, artifact, hproc, hactive, cli, ticks, elsewhere>>

----------------------------------------------------------------------------
\* `hotspeech stop` run as a second process P2 (main.py): main calls
\* stop_recording, which calls stop_recording_from_hotkey on the module
\* globals of P2, a fresh import of hotspeech.app.audio.

\* stop_recording_from_hotkey in a process whose recording_process is rp
\* and that runs no recording thread: the value it returns.
StopInFreshProcess(rp) == IF NoProcess(rp) THEN PyFalse ELSE PyTrue

CliStop ==
    /\ cli = Pending
    /\ cli' = StopInFreshProcess(ModuleGlobals.recording_process)
    /\ UNCHANGED <<globals, cpc, threads, children, hotkeys, ticks, elsewhere>>

----------------------------------------------------------------------------
\* The child processes.

\* ffmpeg exits: on the control byte, on SIGTERM, or on an error of its own.
\* It may also ignore both for longer than the timeouts of its parent.
EncoderExit(s) ==
    /\ Running(s)
    /\ encoder' = [encoder EXCEPT ![s].st = "exited"]
    /\ UNCHANGED <<globals, cpc, threads, notifier, xmessage, artifact, hotkeys, cli, ticks, elsewhere>>

\* ffmpeg creates the output file, then writes audio into it.
EncoderWrite(s) ==
    /\ Running(s)
    /\ artifact[s] # "nonempty"
    /\ artifact' = [artifact EXCEPT ![s] = IF @ = "missing" THEN "empty" ELSE "nonempty"]
    /\ UNCHANGED <<globals, cpc, threads, encoder, notifier, xmessage, hotkeys, cli, ticks, elsewhere>>

\* The user dismisses the zenity dialog.
NotifierExit(s) ==
    /\ notifier[s] = "running"
    /\ notifier' = [notifier EXCEPT ![s] = "exited"]
    /\ UNCHANGED <<globals, cpc, threads, encoder, xmessage, artifact, hotkeys, cli, ticks, elsewhere>>

----------------------------------------------------------------------------
\* AudioRecorder.record_audio: the synchronous recording.

RecordAudioCall ==
    /\ pc[SyncId] = "unborn"
    /\ pc' = [pc EXCEPT ![SyncId] = "ra_start"]
    /\ UNCHANGED <<globals, cpc, notification_proc, stop_arg, counter, reported,
                   children, hotkeys, cli, ticks, elsewhere>>

\* output_file, process = self.start_recording()
RecordAudioStart ==
    /\ pc[SyncId] = "ra_start"
    /\ \E spawned \in BOOLEAN :
        IF spawned
        THEN /\ encoder' = [encoder EXCEPT ![SyncId] = [NoEncoder EXCEPT !.st = "running"]]
             /\ pc' = [pc EXCEPT ![SyncId] = "ra_loop"]
        ELSE /\ pc' = [pc EXCEPT ![SyncId] = "ra_except"]
             /\ UNCHANGED encoder
    /\ UNCHANGED <<globals, cpc, notification_proc, stop_arg, counter, reported,
                   notifier, xmessage, artifact, hotkeys, cli, ticks, elsewhere>>

\* while process.poll() is None and time.time() - start_time < self.max_duration
WithinMaxDuration(n) == n < MaxDurationTicks

RecordAudioLoop ==
    /\ pc[SyncId] = "ra_loop"
    /\ IF Running(SyncId) /\ WithinMaxDuration(counter[SyncId])
       THEN /\ counter' = [counter EXCEPT ![SyncId] = Tick(@)]
            /\ UNCHANGED pc
       ELSE /\ pc' = [pc EXCEPT ![SyncId] = "ra_stop"]
            /\ UNCHANGED counter
    /\ UNCHANGED <<globals, cpc, notification_proc, stop_arg, reported, children,
                   hotkeys, cli, ticks, elsewhere>>

\* if process.poll() is None: self.stop_recording(process)
RecordAudioStop ==
    /\ pc[SyncId] = "ra_stop"
    /\ StopRecordingBegin(SyncId, IF Running(SyncId) THEN SyncId ELSE None)
    /\ UNCHANGED <<globals, cpc, notification_proc, counter, reported, notifier,
                   xmessage, artifact, hotkeys, cli, ticks, elsewhere>>

\* return output_file if it exists and is not empty, else None
RecordAudioCheck ==
    /\ pc[SyncId] = "ra_check"
    /\ reported' = [reported EXCEPT ![SyncId] =
                        Append(@, IF ArtifactOk(SyncId) THEN PATH ELSE None)]
    /\ pc' = [pc EXCEPT ![SyncId] = "done"]
    /\ UNCHANGED <<globals, cpc, notification_proc, stop_arg, counter, children,
                   hotkeys, cli, ticks, elsewhere>>

\* except Exception: return None
RecordAudioExcept ==
    /\ pc[SyncId] = "ra_except"
    /\ reported' = [reported EXCEPT ![SyncId] = Append(@, None)]
    /\ pc' = [pc EXCEPT ![SyncId] = "done"]
    /\ UNCHANGED <<globals, cpc, notification_proc, stop_arg, counter, children,
                   hotkeys, cli, ticks, elsewhere>>

----------------------------------------------------------------------------
\* AudioRecorder.start_recording: the input device is resolved with pactl,
\* then ffmpeg is spawned on it.

\* Lines an answer of pactl is followed for.
MaxLines == 2

SeqsUpTo(S, n) == UNION {[1..k -> S] : k \in 0..n}

\* A local that no assignment has bound yet.
Unbound == "<unbound>"

\* subprocess.check_output: the text of the answer, as its lines, or an
\* exception (the command is missing, or it exits with a non-zero status).
CommandError == [ok |-> FALSE, lines |-> <<>>]
Answer(lines) == [ok |-> TRUE, lines |-> lines]

\* Lines of `pactl info`: "<key>: <value>".
InfoLines ==
    {[key |-> "Server Name", value |-> "pulseaudio"],
     [key |-> "Default Sink", value |-> "alsa_output.speaker"],
     [key |-> "Default Source", value |-> "alsa_input.mic"],
     [key |-> "Default Source", value |-> "alsa_input.usb"]}

\* Lines of `pactl list sources short`, as their whitespace-separated fields.
SourceLines ==
    {<<>>,
     <<"No", "valid", "command", "specified">>,
     <<"44", "alsa_output.speaker.monitor", "PipeWire">>,
     <<"45", "alsa_input.mic", "PipeWire">>,
     <<"46", "alsa_input.usb", "PipeWire">>,
     <<"alsa_input.mic">>,
     <<"input">>}

PactlInfoAnswers == {CommandError} \cup {Answer(l) : l \in SeqsUpTo(InfoLines, MaxLines)}
PactlSourcesAnswers ==
    {CommandError} \cup {Answer(l) : l \in SeqsUpTo(SourceLines, MaxLines)}

\* "input" in field.lower()
ContainsInput(field) == field \in {"alsa_input.mic", "alsa_input.usb", "input"}

\* "Default Source:" in line
IsDefaultSourceLine(line) == line.key = "Default Source"

\* line.strip() and not line.startswith("No valid command")
\*     and "input" in line.lower()
IsInputLine(line) ==
    /\ Len(line) > 0
    /\ ~(Len(line) >= 3 /\ SubSeq(line, 1, 3) = <<"No", "valid", "command">>)
    /\ \E i \in 1..Len(line) : ContainsInput(line[i])

\* The index of the first line that satisfies the test of a for loop, 0
\* when the loop ends without break.
FirstDefaultSourceLine(lines) ==
    IF \E i \in 1..Len(lines) : IsDefaultSourceLine(lines[i])
    THEN CHOOSE i \in 1..Len(lines) :
            /\ IsDefaultSourceLine(lines[i])
            /\ \A j \in 1..(i - 1) : ~IsDefaultSourceLine(lines[j])
    ELSE 0

\* if len(parts) >= 2: default_source = parts[1]; break
FirstUsableInputLine(lines) ==
    IF \E i \in 1..Len(lines) : IsInputLine(lines[i]) /\ Len(lines[i]) >= 2
    THEN CHOOSE i \in 1..Len(lines) :
            /\ IsInputLine(lines[i]) /\ Len(lines[i]) >= 2
            /\ \A j \in 1..(i - 1) : ~(IsInputLine(lines[j]) /\ Len(lines[j]) >= 2)
    ELSE 0

\* The inner for loop without its else clause: nothing is bound when no
\* line is usable.
FirstInputSourceNoElse(lines) ==
    IF FirstUsableInputLine(lines) # 0
    THEN lines[FirstUsableInputLine(lines)][2]
    ELSE Unbound

\* The inner for loop and its else clause: parts[1] of the first usable
\* line, "default" when there is none.
FirstInputSource(lines) ==
    IF FirstUsableInputLine(lines) # 0
    THEN lines[FirstUsableInputLine(lines)][2]
    ELSE "default"

\* The call: output_file = self._get_recording_filename()
StartRecordingCall ==
    /\ dpc = "idle"
    /\ dpc' = "list"
    /\ UNCHANGED <<pactl_info, pactl_sources, default_source, ffmpeg_input, recorder, transcription,
                   pipeline>>

\* The sources are listed and printed; a failure is printed too.
ListSources ==
    /\ dpc = "list"
    /\ dpc' = "query"
    /\ UNCHANGED <<pactl_info, pactl_sources, default_source, ffmpeg_input, recorder, transcription,
                   pipeline>>

\* `pactl info` and the outer for loop: the value of the first
\* "Default Source:" line; with no such line the else clause goes on to the
\* enumeration; an exception of the command goes to except Exception.
QueryDefaultSource ==
    /\ dpc = "query"
    /\ IF ~pactl_info.ok
       THEN /\ default_source' = "default"
            /\ dpc' = "spawn"
       ELSE IF FirstDefaultSourceLine(pactl_info.lines) # 0
       THEN /\ default_source' =
                    pactl_info.lines[FirstDefaultSourceLine(pactl_info.lines)].value
            /\ dpc' = "spawn"
       ELSE /\ dpc' = "enumerate"
            /\ UNCHANGED default_source
    /\ UNCHANGED <<pactl_info, pactl_sources, ffmpeg_input, recorder, transcription,
                   pipeline>>

\* `pactl list sources short` and the inner for loop; an exception of the
\* command goes to the same except Exception.
EnumerateSources ==
    /\ dpc = "enumerate"
    /\ default_source' = IF pactl_sources.ok
                         THEN FirstInputSource(pactl_sources.lines)
                         ELSE "default"
    /\ dpc' = "spawn"
    /\ UNCHANGED <<pactl_info, pactl_sources, ffmpeg_input, recorder, transcription,
                   pipeline>>

\* subprocess.Popen(["ffmpeg", "-f", "pulse", "-i", default_source, ...]):
\* the process is returned, or Popen raises to the caller.
SpawnEncoder ==
    /\ dpc = "spawn"
    /\ ffmpeg_input' = default_source
    /\ \E spawned \in BOOLEAN :
          dpc' = IF spawned THEN "returned" ELSE "popen_raised"
    /\ UNCHANGED <<pactl_info, pactl_sources, default_source, recorder, transcription,
                   pipeline>>

StartRecording ==
    \/ StartRecordingCall
    \/ ListSources
    \/ QueryDefaultSource
    \/ EnumerateSources
    \/ SpawnEncoder

----------------------------------------------------------------------------
\* Transcriber (src/hotspeech/app/transcriber.py).  A model identifier is
\* the sequence of its parts between colons: "faster-whisper:small.en" is
\* <<"faster-whisper", "small.en">>.

Backends == {"api", "local"}

ModelIds ==
    {<<"whisper-1">>, <<"faster-whisper">>, <<"faster-whisper", "small.en">>,
     <<"faster-whisper", "large">>, <<"base">>, <<"ggml", "base">>}

\* config["transcription"]; api_key: the config or OPENAI_API_KEY has one.
Configs == [backend : Backends, model : ModelIds, api_key : BOOLEAN]
\* The model argument of transcribe, None by default.
Requests == {NoModel} \cup ModelIds
\* What a backend can return as the text.
Texts == {"", "hello world"}
\* device_info of the local backend.
DeviceInfos == {"(GPU)", "(CPU)"}

\* m.startswith("faster-whisper")
StartsWithFasterWhisper(m) == m # NoModel /\ m[1] \in {"faster-whisper"}
\* m.startswith("whisper-") or m == "whisper-1"
StartsWithWhisperDash(m) == m # NoModel /\ m[1] \in {"whisper-1"}
\* ":" in m
HasColon(m) == Len(m) >= 2

\* _adjust_models_for_backends: the value of self.model it leaves.
AdjustModelsForBackends(backend, model) ==
    IF backend = "api"
    THEN IF StartsWithFasterWhisper(model) THEN <<"whisper-1">> ELSE model
    ELSE IF StartsWithFasterWhisper(model) THEN model
    ELSE IF ~HasColon(model) THEN <<"faster-whisper", "small.en">>
    ELSE <<"faster-whisper">> \o model

\* A normalization whose local branch prepends the namespace to whatever
\* it is given.
GetModelPrefixed(self_model, backend, specified_model) ==
    LET model_to_use ==
            IF specified_model # NoModel THEN specified_model ELSE self_model
    IN  IF backend = "api"
        THEN IF StartsWithFasterWhisper(model_to_use)
             THEN <<"whisper-1">> ELSE model_to_use
        ELSE <<"faster-whisper">> \o model_to_use

\* _get_model_for_backend(backend, specified_model) of a Transcriber whose
\* self.model is self_model.
GetModelForBackend(self_model, backend, specified_model) ==
    LET model_to_use ==
            IF specified_model # NoModel THEN specified_model ELSE self_model
    IN  IF backend = "api"
        THEN IF StartsWithFasterWhisper(model_to_use)
             THEN <<"whisper-1">> ELSE model_to_use
        ELSE IF ~StartsWithFasterWhisper(model_to_use)
             THEN <<"faster-whisper", "small.en">> ELSE model_to_use

\* The WARNING lines _adjust_models_for_backends prints: the backend and the
\* identifier the line names as the one used.
AdjustWarnings(backend, model) ==
    LET Warning(used) == <<[backend |-> backend, model |-> used]>>
    IN  IF backend = "api"
        THEN IF StartsWithFasterWhisper(model) THEN Warning(<<"whisper-1">>) ELSE <<>>
        ELSE IF StartsWithFasterWhisper(model) THEN <<>>
        ELSE IF ~HasColon(model) THEN Warning(<<"faster-whisper", "small.en">>)
        ELSE Warning(<<"faster-whisper">> \o model)

\* A backend returns (text, model used) or raises TranscriptionError(msg).
Returned(text) == [ok |-> TRUE, text |-> text, msg |-> "", type |-> Null]
Raised(msg) == [ok |-> FALSE, text |-> Null, msg |-> msg, type |-> "TranscriptionError"]

\* What the engines can raise inside the try blocks of the backends.
ApiExceptions == {[type |-> "AuthenticationError", str |-> "401"]}
LocalExceptions ==
    {[type |-> "ImportError", str |-> "No module named 'faster_whisper'"],
     [type |-> "RuntimeError", str |-> "out of memory"]}

\* _transcribe_api: except Exception as e: raise TranscriptionError(...)
ExceptApi(e) == Raised("API transcription failed: " \o e.str)

\* A local backend whose handlers stop at ImportError.
ExceptLocalImportError(e) ==
    IF e.type = "ImportError"
    THEN Raised("faster-whisper is not installed. Error: " \o e.str)
    ELSE [ok |-> FALSE, text |-> Null, msg |-> e.str, type |-> e.type]

\* _transcribe_local_faster_whisper: except ImportError / except Exception
ExceptLocal(e) ==
    IF e.type = "ImportError"
    THEN Raised("faster-whisper is not installed. Error: " \o e.str)
    ELSE Raised("Local transcription failed: " \o e.str)

\* _transcribe_api: api_model, the identifier given to the API and returned.
ApiModelUsed == GetModelForBackend(transcriber.model, "api", transcriber.model)

\* _transcribe_local_faster_whisper: local_model
LocalModel == GetModelForBackend(transcriber.model, "local", transcriber.model)

\* local_model.split(":", 1)[1], or "small.en" when there is no colon
ModelSize(local_model) ==
    IF HasColon(local_model) THEN Tail(local_model) ELSE <<"small.en">>

\* _transcribe_local_faster_whisper: f"faster-whisper:{model_size} ({device_info})",
\* the device suffix being the last element.
LocalModelUsed(device_info) ==
    <<"faster-whisper">> \o ModelSize(LocalModel) \o <<device_info>>

\* The invocations of a backend that can happen at a stage of the call,
\* with what the backend answers; model is the identifier the backend got
\* from _get_model_for_backend, if it came that far.
BackendCalls(stage, backend) ==
    LET Call(o, model, used) ==
            [stage |-> stage, backend |-> backend, outcome |-> o,
             model |-> model, model_used |-> used]
    IN  IF backend = "api"
        THEN IF ~openai_api_key
             THEN {Call(Raised("OpenAI API key not set"), NoModel, NoModel)}
             ELSE {Call(Returned(t), ApiModelUsed, ApiModelUsed) : t \in Texts}
                    \cup {Call(ExceptApi(e), ApiModelUsed, NoModel) : e \in ApiExceptions}
        ELSE {Call(Returned(t), LocalModel, LocalModelUsed(d)) :
                    t \in Texts, d \in DeviceInfos}
                \cup {Call(ExceptLocal(e),
                           IF e.type = "ImportError" THEN NoModel ELSE LocalModel,
                           NoModel) : e \in LocalExceptions}

\* A result that keeps the model_used of the initial dict.
DoneKeepsModel(res, call) ==
    [res EXCEPT !.transcription = call.outcome.text, !.status = "done"]

\* result["transcription"], result["model_used"] = ...; result["status"] = "done"
Done(res, call) ==
    [res EXCEPT !.transcription = call.outcome.text,
                !.model_used = call.model_used,
                !.status = "done"]

\* Transcriber(config)
TranscriberInit ==
    /\ tpc = "new"
    /\ transcriber' =
            [backend |-> config.backend,
             model |-> AdjustModelsForBackends(config.backend, config.model)]
    /\ openai_api_key' = IF config.backend = "api" /\ config.api_key
                         THEN TRUE ELSE openai_api_key
    /\ warnings' = warnings \o AdjustWarnings(config.backend, config.model)
    /\ tpc' = "idle"
    /\ UNCHANGED <<config, request, backend_to_use, result, calls, recorder, resolver,
                   pipeline>>

\* A call that always uses the configured backend.
ConfiguredBackend(model) == transcriber.backend

\* The backend of the primary attempt: self.backend, overridden by the
\* namespace of the model argument.
PrimaryBackend(model) ==
    IF model # NoModel /\ StartsWithWhisperDash(model) THEN "api"
    ELSE IF model # NoModel /\ StartsWithFasterWhisper(model) THEN "local"
    ELSE transcriber.backend

\* transcribe(audio_path, model): the result dict is built and the backend
\* chosen.
TranscribeCall ==
    /\ tpc = "idle"
    /\ \E model \in Requests :
        /\ request' = model
        /\ result' = [transcription |-> Null,
                      model_used |-> IF model # NoModel THEN model
                                     ELSE transcriber.model,
                      status |-> "error",
                      error_message |-> <<>>]
        /\ backend_to_use' = PrimaryBackend(model)
    /\ tpc' = "primary"
    /\ UNCHANGED <<config, transcriber, openai_api_key, warnings, calls, recorder,
                   resolver, pipeline>>

\* An attempt that is followed by the fallback whatever it answered.
AlwaysFallback(outcome) == TRUE

\* except TranscriptionError as e: entered when the primary attempt raised it.
PrimaryRaised(outcome) == ~outcome.ok /\ outcome.type = "TranscriptionError"

\* Where the call is after a backend invocation that answered outcome and
\* was not followed by the fallback: the result is returned, or an exception
\* no handler of transcribe catches leaves the call.
AfterAttempt(outcome) ==
    IF outcome.ok \/ outcome.type = "TranscriptionError" THEN "returned" ELSE "raised"

\* The primary attempt.
PrimaryAttempt ==
    /\ tpc = "primary"
    /\ \E call \in BackendCalls("primary", backend_to_use) :
        /\ calls' = Append(calls, call)
        /\ result' = IF call.outcome.ok THEN Done(result, call)
                      ELSE IF call.outcome.type = "TranscriptionError"
                      THEN [result EXCEPT !.error_message = <<call.outcome.msg>>]
                      ELSE result
        /\ tpc' = IF PrimaryRaised(call.outcome) THEN "fallback"
                  ELSE AfterAttempt(call.outcome)
    /\ UNCHANGED <<config, transcriber, openai_api_key, warnings, request,
                   backend_to_use, recorder, resolver,
                   pipeline>>

\* fallback_backend = "api" if self.backend == "local" else "local"
FallbackBackend(backend) == IF backend = "local" THEN "api" ELSE "local"

\* A fallback that is attempted without looking at openai.api_key.
FallbackAlwaysEligible(fallback_backend) == TRUE

\* if fallback_backend == "api" and openai.api_key: ... elif fallback_backend == "local":
FallbackEligible(fallback_backend) ==
    fallback_backend = "local" \/ openai_api_key

\* An error message that drops the primary's cause.
FallbackCauseOnly(e, fallback_error) == <<fallback_error>>

\* f"{str(e)}; Fallback also failed: {str(fallback_error)}"
BothCauses(e, fallback_error) == <<e, "; Fallback also failed: ", fallback_error>>

\* The fallback attempt, or none when the fallback backend is not eligible;
\* the result is returned.
FallbackAttempt ==
    /\ tpc = "fallback"
    /\ LET fallback_backend == FallbackBackend(transcriber.backend)
       IN  IF FallbackEligible(fallback_backend)
           THEN \E call \in BackendCalls("fallback", fallback_backend) :
                /\ calls' = Append(calls, call)
                /\ result' =
                      IF call.outcome.ok THEN Done(result, call)
                      ELSE IF call.outcome.type = "TranscriptionError"
                      THEN [result EXCEPT !.error_message =
                                BothCauses(calls[1].outcome.msg, call.outcome.msg)]
                      ELSE result
                /\ tpc' = AfterAttempt(call.outcome)
           ELSE /\ tpc' = "returned"
                /\ UNCHANGED <<calls, result>>
    /\ UNCHANGED <<config, transcriber, openai_api_key, warnings, request,
                   backend_to_use, recorder, resolver,
                   pipeline>>

Transcribe ==
    \/ TranscriberInit
    \/ TranscribeCall
    \/ PrimaryAttempt
    \/ FallbackAttempt

----------------------------------------------------------------------------
\* record_and_transcribe (src/hotspeech/main.py) and the Database it uses
\* (src/hotspeech/app/db.py).  The session it starts is taken up where
\* recording_thread_func checks the artifact or catches an exception.

\* The thread that calls record_and_transcribe, and the recording thread
\* start_recording_with_ui creates, which calls on_complete.
MainThread == "MainThread"
CallbackThread == "Thread-1 (recording_thread_func)"

\* int(config["storage"]["keep_last_n"])
KeepLastN == {0, 1}
AppConfigs == [clipboard_enabled : BOOLEAN, keep_last_n : KeepLastN]

\* sqlite3 with check_same_thread left at its default: a connection is used
\* only by the thread that created it, any other gets ProgrammingError.
SameThread(d, thread) == d.conn = thread

\* Database.add_recording: INSERT INTO recordings ...; created_at is
\* CURRENT_TIMESTAMP, in whole seconds, at time t.
AddRecording(d, t, audio_path, res) ==
    [d EXCEPT !.now = t,
              !.seq = @ + 1,
              !.rows = Append(@, [id |-> d.seq + 1, created_at |-> t,
                                  audio_path |-> audio_path,
                                  transcription |-> res.transcription,
                                  model_used |-> res.model_used,
                                  status |-> res.status,
                                  error_message |-> res.error_message])]

\* SELECT id FROM recordings ORDER BY created_at DESC LIMIT keep_last_n: the
\* sets of ids the query can return, rows of one second in any order.
KeepIds(rows, keep_last_n) ==
    LET ids == {rows[i].id : i \in 1..Len(rows)}
        CreatedAt(id) == (CHOOSE i \in 1..Len(rows) : rows[i].id = id)
        limit == IF keep_last_n < Len(rows) THEN keep_last_n ELSE Len(rows)
    IN  {keep \in SUBSET ids :
            /\ Cardinality(keep) = limit
            /\ \A k \in keep, o \in ids \ keep :
                    rows[CreatedAt(k)].created_at >= rows[CreatedAt(o)].created_at}

\* Database.cleanup_old_recordings: the rows it leaves when the first query
\* returned keep_ids; nothing is deleted when keep_ids is empty.
CleanupOldRecordings(rows, keep_ids) ==
    IF keep_ids = {} THEN rows
    ELSE SelectSeq(rows, LAMBDA r : r.id \in keep_ids)

\* deleted_paths of cleanup_old_recordings
DeletedPaths(rows, keep_ids) ==
    IF keep_ids = {} THEN {}
    ELSE {rows[i].audio_path : i \in {j \in 1..Len(rows) : rows[j].id \notin keep_ids}}

\* if result["transcription"] and config["clipboard"]["enabled"]:
\*     Clipboard.copy_to_clipboard(result["transcription"])
CopyToClipboard(res) ==
    IF res.transcription \notin {Null, ""} /\ app_config.clipboard_enabled
    THEN Append(clipboard, res.transcription) ELSE clipboard

\* db = Database(...): the connection is opened by the calling thread.
RecordAndTranscribeDatabase ==
    /\ ppc = "new"
    /\ db' = [db EXCEPT !.conn = MainThread]
    /\ ppc' = "db"
    /\ UNCHANGED <<app_config, files, clipboard, web, cleanup, recorder, resolver,
                   transcription>>

\* transcriber = Transcriber(config)
RecordAndTranscribeTranscriber ==
    /\ ppc = "db"
    /\ TranscriberInit

\* start_recording_with_ui(recorder, on_recording_complete); return True.
\* The recording thread goes on to its artifact check, with or without a
\* file, or to its except clause.
RecordAndTranscribeStart ==
    /\ ppc = "db" /\ tpc = "idle"
    /\ \E outcome \in {"nonempty", "empty", "missing", "raised"} :
        /\ artifact' = [artifact EXCEPT ![1] =
                            IF outcome = "raised" THEN "missing" ELSE outcome]
        /\ pc' = [pc EXCEPT ![1] = IF outcome = "raised" THEN "except" ELSE "artifact"]
        /\ files' = IF outcome \in {"nonempty", "empty"} THEN files \cup {PATH} ELSE files
    /\ ppc' = "recording"
    /\ UNCHANGED <<globals, cpc, notification_proc, stop_arg, counter, reported,
                   encoder, notifier, xmessage, hotkeys, cli, ticks, app_config, db,
                   clipboard, web, cleanup, resolver, transcription>>

\* recording_thread_func: on_complete(output_file) or on_complete(None);
\* on_recording_complete returns at once when it is given None.
OnRecordingComplete ==
    /\ ppc = "recording" /\ pc[1] = "artifact"
    /\ LET audio_path == IF ArtifactOk(1) THEN PATH ELSE None
       IN  /\ reported' = [reported EXCEPT ![1] = Append(@, audio_path)]
           /\ IF audio_path = None
              THEN /\ pc' = [pc EXCEPT ![1] = "finally"]
                   /\ ppc' = "returned"
              ELSE /\ pc' = [pc EXCEPT ![1] = "callback"]
                   /\ ppc' = "transcribe"
    /\ UNCHANGED <<globals, cpc, notification_proc, stop_arg, counter, children,
                   hotkeys, cli, ticks, app_config, db, files, clipboard, web,
                   cleanup, resolver, transcription>>

\* result = transcriber.transcribe(audio_path)
OnRecordingCompleteTranscribe ==
    /\ ppc = "transcribe"
    /\ \/ TranscribeCall /\ request' = NoModel
       \/ PrimaryAttempt
       \/ FallbackAttempt

\* db.add_recording(...), db.cleanup_old_recordings(...), os.remove of the
\* deleted paths, Clipboard.copy_to_clipboard: the rest of
\* on_recording_complete, run by the recording thread.
OnRecordingCompletePersist ==
    /\ ppc = "transcribe" /\ tpc = "returned"
    /\ IF ~SameThread(db, CallbackThread)
       THEN /\ ppc' = "raised"
            /\ pc' = [pc EXCEPT ![1] = "except"]
            /\ UNCHANGED <<db, files, clipboard>>
       ELSE /\ \E t \in {db.now, db.now + 1} :
                LET added == AddRecording(db, t, PATH, result)
                IN  \E keep_ids \in KeepIds(added.rows, app_config.keep_last_n) :
                        /\ db' = [added EXCEPT !.rows =
                                        CleanupOldRecordings(added.rows, keep_ids)]
                        /\ \E removed \in SUBSET DeletedPaths(added.rows, keep_ids) :
                                files' = files \ removed
            /\ clipboard' = CopyToClipboard(result)
            /\ ppc' = "returned"
            /\ pc' = [pc EXCEPT ![1] = "finally"]
    /\ UNCHANGED <<globals, cpc, notification_proc, stop_arg, counter, reported,
                   children, hotkeys, cli, ticks, app_config, web, cleanup, resolver,
                   transcription>>

RecordAndTranscribe ==
    \/ RecordAndTranscribeDatabase
    \/ RecordAndTranscribeTranscriber
    \/ RecordAndTranscribeStart
    \/ OnRecordingComplete
    \/ OnRecordingCompleteTranscribe
    \/ OnRecordingCompletePersist
    \/ ThreadExcept(1)

----------------------------------------------------------------------------
\* The web server (src/hotspeech/app/webui/routes.py) and the command line
\* tool (src/hotspeech/cli.py): two processes on the recordings table of the
\* file at sqlite_path.

\* The thread main() starts with target=run_web_server; it calls initialize
\* and runs the event loop that executes the routes.
ServerThread == "Thread-1 (run_web_server)"

\* Rows of the table when the processes start, requests the server answers.
MaxRows == 2
MaxRequests == 2

\* The configurations the server is started with, and request.model of the
\* /api/transcribe requests it is sent.
StoreConfigs ==
    [backend : Backends, api_key : BOOLEAN,
     model : {<<"whisper-1">>, <<"faster-whisper", "small.en">>}]
RouteRequests == {NoModel, <<"whisper-1">>, <<"faster-whisper", "large">>}

\* The columns add_recording fills from a result of transcribe: a text, or
\* the message of a failed local attempt without a fallback.
StoredResults ==
    {[transcription |-> "hello world", model_used |-> <<"whisper-1">>,
      status |-> "done", error_message |-> <<>>],
     [transcription |-> Null, model_used |-> <<"faster-whisper", "small.en">>,
      status |-> "error",
      error_message |-> <<"Local transcription failed: out of memory">>]}

\* The tables add_recording can have left: ids count up, created_at (whole
\* seconds) does not go back, every recording has a file of its own.
Tables ==
    LET Row(i, t, r) ==
            [id |-> i, created_at |-> t, audio_path |-> i,
             transcription |-> r.transcription, model_used |-> r.model_used,
             status |-> r.status, error_message |-> r.error_message]
    IN  UNION {{[i \in 1..n |-> Row(i, t[i], r[i])] :
                    t \in {f \in [1..n -> 1..2] :
                                \A i, j \in 1..n : i <= j => f[i] <= f[j]},
                    r \in [1..n -> StoredResults]} : n \in 0..MaxRows}

\* Database.get_recording: dict(result) if result else None
GetRecording(rows, id) == SelectSeq(rows, LAMBDA r : r.id = id)

\* Database.update_recording: a value that is None is replaced by the
\* stored one before the UPDATE.
UpdateRecording(rows, id, res) ==
    [i \in 1..Len(rows) |->
        IF rows[i].id # id THEN rows[i]
        ELSE [rows[i] EXCEPT
                !.transcription = IF res.transcription # Null
                                  THEN res.transcription ELSE @,
                !.model_used = IF res.model_used # NoModel
                               THEN res.model_used ELSE @,
                !.status = res.status,
                !.error_message = IF res.error_message # <<>>
                                  THEN res.error_message ELSE @]]

\* The response that ends a request.
Respond(route, status_code, body) ==
    [web EXCEPT !.pc = "serving", !.served = @ + 1,
                !.response = [route |-> route, status_code |-> status_code,
                              body |-> body]]

\* initialize: db = Database(...), the connection opened by the server thread
Initialize ==
    /\ web.pc = "new"
    /\ db' = [db EXCEPT !.conn = ServerThread]
    /\ web' = [web EXCEPT !.pc = "serving"]
    /\ UNCHANGED <<ppc, app_config, files, clipboard, cleanup, recorder, resolver,
                   transcription>>

\* initialize: transcriber = Transcriber(config)
InitializeTranscriber ==
    /\ web.pc = "serving"
    /\ TranscriberInit

\* The event loop takes the next request.
Serving ==
    /\ web.pc = "serving" /\ tpc = "idle"
    /\ web.served < MaxRequests
    /\ SameThread(db, ServerThread)

\* transcribe_recording: db.get_recording and the 404 answer
TranscribeRecording ==
    /\ Serving
    /\ \E recording_id \in 1..MaxRows :
        web' = IF GetRecording(db.rows, recording_id) = <<>>
               THEN [Respond("/api/transcribe", 404, <<>>) EXCEPT
                        !.recording_id = recording_id]
               ELSE [web EXCEPT !.pc = "transcribe", !.recording_id = recording_id]
    /\ UNCHANGED <<ppc, app_config, db, files, clipboard, cleanup, recorder,
                   resolver, transcription>>

\* transcribe_recording: transcriber.transcribe(recording["audio_path"],
\* model=request.model)
TranscribeRecordingTranscribe ==
    /\ web.pc = "transcribe"
    /\ \/ TranscribeCall /\ request' \in RouteRequests
       \/ PrimaryAttempt
       \/ FallbackAttempt

\* transcribe_recording: db.update_recording(...) and the answer,
\* db.get_recording(request.recording_id); the locals of the transcribe call
\* are gone when the handler returns.
TranscribeRecordingUpdate ==
    /\ web.pc = "transcribe" /\ tpc = "returned"
    /\ db' = [db EXCEPT !.rows = UpdateRecording(@, web.recording_id, result)]
    /\ web' = Respond("/api/transcribe", 200,
                      GetRecording(db'.rows, web.recording_id))
    /\ tpc' = "idle"
    /\ request' = NoModel
    /\ backend_to_use' = "local"
    /\ result' = [transcription |-> Null, model_used |-> NoModel,
                  status |-> "error", error_message |-> <<>>]
    /\ calls' = <<>>
    /\ UNCHANGED <<ppc, app_config, files, clipboard, cleanup, recorder, resolver,
                   config, transcriber, openai_api_key, warnings>>

\* valid_models of set_default_model
ValidModels == {<<"whisper-1">>, <<"faster-whisper">>}

\* set_default_model: the 400 answer, or the in-memory update followed by the
\* rewrite of the file at config_path, which succeeds or raises.
SetDefaultModel ==
    /\ Serving
    /\ \E model \in ModelIds :
        IF model \notin ValidModels
        THEN /\ web' = [Respond("/api/set-default-model", 400, <<>>) EXCEPT
                            !.model = model]
             /\ UNCHANGED <<config, transcriber>>
        ELSE \E written \in BOOLEAN :
             /\ config' = [config EXCEPT
                                !.model = model,
                                !.backend = IF model = <<"whisper-1">>
                                            THEN "api" ELSE "local"]
             /\ transcriber' = [backend |-> config'.backend, model |-> model]
             /\ web' = [Respond("/api/set-default-model",
                                IF written THEN 200 ELSE 500, <<>>) EXCEPT
                            !.model = model]
    /\ UNCHANGED <<tpc, openai_api_key, warnings, request, backend_to_use, result,
                   calls, ppc, app_config, db, files, clipboard, cleanup,
                   recorder, resolver>>

\* cli.py, `cleanup --keep N`: db.cleanup_old_recordings(keep_last_n), then
\* os.remove of the returned paths, which can fail.
CliCleanupOldRecordings ==
    /\ cleanup.pc = "new"
    /\ \E keep_last_n \in 0..MaxRows :
        \E keep_ids \in KeepIds(db.rows, keep_last_n) :
            LET deleted_paths == DeletedPaths(db.rows, keep_ids)
            IN  /\ db' = [db EXCEPT !.rows = CleanupOldRecordings(@, keep_ids)]
                /\ cleanup' = [pc |-> "done", keep_last_n |-> keep_last_n,
                               deleted_paths |-> deleted_paths]
                /\ \E removed \in SUBSET (deleted_paths \cap files) :
                        files' = files \ removed
    /\ UNCHANGED <<ppc, app_config, clipboard, web, recorder, resolver,
                   transcription>>

Store ==
    \/ Initialize
    \/ InitializeTranscriber
    \/ TranscribeRecording
    \/ TranscribeRecordingTranscribe
    \/ TranscribeRecordingUpdate
    \/ CliCleanupOldRecordings

\* The server is asked to change the default model only.
Settings ==
    \/ Initialize
    \/ InitializeTranscriber
    \/ SetDefaultModel

----------------------------------------------------------------------------
StopRecording ==
    \E s \in Handles :
        \/ StopCommReturn(s)
        \/ StopCommTimeout(s)
        \/ StopWaitReturn(s)
        \/ StopWaitTimeout(s)

Encoders ==
    \E s \in Handles :
        \/ EncoderExit(s)
        \/ EncoderWrite(s)

Notifiers == \E s \in Sessions : NotifierExit(s)

StartRecordingWithUi ==
    \E c \in Sessions :
        \/ StartCheck(c)
        \/ StartCreate(c)
        \/ StartThread(c)

RecordingThread ==
    \E s \in Sessions :
        \/ ThreadStartRecording(s)
        \/ ThreadNotify(s)
        \/ ThreadLoop(s)
        \/ ThreadBody(s)
        \/ ThreadArtifact(s)
        \/ ThreadExcept(s)
        \/ ThreadFinally(s)
        \/ ThreadFinallyWait(s)
        \/ ThreadFinallyNotif(s)
        \/ ThreadFinallyReset(s)

StopRecordingFromHotkey ==
    \E h \in Hotkeys :
        \/ HotkeyCall(h)
        \/ HotkeyPoll(h)
        \/ HotkeyCommunicate(h)
        \/ HotkeyCommReturn(h)
        \/ HotkeyCommTimeout(h)
        \/ HotkeyNotif(h)

RecordAudio ==
    \/ RecordAudioCall
    \/ RecordAudioStart
    \/ RecordAudioLoop
    \/ RecordAudioStop
    \/ RecordAudioCheck
    \/ RecordAudioExcept

\* The process started by `hotspeech record` or embedding the recorder: one
\* recording, the stop requests made of it, and the `stop` command run
\* beside it.
Next ==
    \/ StartRecordingWithUi
    \/ RecordingThread
    \/ StopRecordingFromHotkey
    \/ StopRecording
    \/ Encoders
    \/ Notifiers
    \/ CliStop

Spec == InitSession(1, NStops, MaxTicks) /\ [][Next]_vars

\* Callers of start_recording_with_ui racing and following each other.
NextStart ==
    \/ StartRecordingWithUi
    \/ RecordingThread
    \/ StopRecording
    \/ Encoders
    \/ Notifiers

SpecStart == InitSession(NStarts, 0, 0) /\ [][NextStart]_vars

\* A caller of the synchronous record_audio.
NextSync ==
    \/ RecordAudio
    \/ StopRecording
    \/ Encoders
    \/ CliStop

SpecSync == InitSession(0, 0, MaxTicks) /\ [][NextSync]_vars

\* A start_recording call, for every answer of the two pactl commands.
InitResolver ==
    /\ InitWith(0, 0, 0)
    /\ NoTranscription
    /\ NoPipeline
    /\ dpc = "idle"
    /\ pactl_info \in PactlInfoAnswers
    /\ pactl_sources \in PactlSourcesAnswers
    /\ default_source = Unbound
    /\ ffmpeg_input = Unbound

SpecResolver == InitResolver /\ [][StartRecording]_vars

\* A Transcriber is constructed from a configuration and asked once.
NewTranscriber ==
    /\ tpc = "new"
    /\ config \in Configs
    /\ transcriber = [backend |-> "local", model |-> NoModel]
    /\ openai_api_key = FALSE
    /\ warnings = <<>>
    /\ request = NoModel
    /\ backend_to_use = "local"
    /\ result = [transcription |-> Null, model_used |-> NoModel,
                 status |-> "error", error_message |-> <<>>]
    /\ calls = <<>>

InitTranscriber ==
    /\ InitWith(0, 0, 0)
    /\ NoResolution
    /\ NewTranscriber
    /\ NoPipeline

SpecTranscriber == InitTranscriber /\ [][Transcribe]_vars

\* `hotspeech record`: record_and_transcribe is called once, for every
\* configuration.
InitPipeline ==
    /\ InitWith(0, 0, 0)
    /\ NoResolution
    /\ NewTranscriber
    /\ ppc = "new"
    /\ app_config \in AppConfigs
    /\ db = NoDatabase
    /\ files = {}
    /\ clipboard = <<>>
    /\ NoStore

SpecPipeline == InitPipeline /\ [][RecordAndTranscribe]_vars

\* The web server is started and `hotspeech-cli cleanup` is run once, for
\* every configuration and every table found in the file.
InitStore ==
    /\ InitWith(0, 0, 0)
    /\ NoResolution
    /\ NewTranscriber
    /\ config \in StoreConfigs
    /\ ppc = "unused"
    /\ app_config = [clipboard_enabled |-> FALSE, keep_last_n |-> 0]
    /\ \E rows \in Tables :
        /\ db = [conn |-> Null, seq |-> Len(rows), rows |-> rows,
                 now |-> IF rows = <<>> THEN 0 ELSE rows[Len(rows)].created_at]
        /\ files = {rows[i].audio_path : i \in 1..Len(rows)}
    /\ clipboard = <<>>
    /\ web = [pc |-> "new", recording_id |-> 0, model |-> NoModel, served |-> 0,
              response |-> NoResponse]
    /\ cleanup = [pc |-> "new", keep_last_n |-> 0, deleted_paths |-> {}]

SpecStore == InitStore /\ [][Store]_vars

SpecSettings == InitStore /\ [][Settings]_vars

----------------------------------------------------------------------------
\* The states of a session, read off its recording thread.

\* Recording: the monitoring loop is running.
Recording(s) == pc[s] \in {"loop", "body", "ra_loop"}
\* Stopping: inside AudioRecorder.stop_recording.
Stopping(s) == pc[s] \in {"stop_q", "stop_term"}
\* The path was reported to on_complete (or returned by record_audio).
PathReported(s) == \E i \in 1..Len(reported[s]) : reported[s][i] = PATH
\* Only None was reported.
NoneReported(s) == reported[s] # <<>> /\ ~PathReported(s)
\* No stop request was made and the notifier was not dismissed.
NoStopTrigger(s) ==
    /\ \A h \in Hotkeys : hpc[h] \in {"idle", "unused"}
    /\ ~NotificationClosed(s)
\* A stop_recording_from_hotkey call that sent the control input to p has
\* returned.
StopDelivered(p) == \E h \in Hotkeys : hpc[h] = "done" /\ hproc[h] = p

----------------------------------------------------------------------------
\* C1: at any time at most one recording thread is alive and at most one
\* encoder process is running, whatever the interleaving of the
\* start_recording_with_ui calls.
C1_AtMostOneSession ==
    /\ Cardinality({s \in Sessions : IsAlive(s)}) <= 1
    /\ Cardinality({s \in Sessions : Running(s)}) <= 1

\* C2: once a stop request has been delivered to a session's encoder and has
\* returned, a second trigger is a no-op: the control input is not sent
\* again, a second stop_recording_from_hotkey call changes nothing, and a
\* notifier dismissal seen by the monitoring loop leaves the encoder alone
\* and goes on to the artifact check.
C2_SecondStopIsNoOp ==
    [][\A p \in Sessions : StopDelivered(p) /\ recording_process = p =>
          /\ encoder'[p].qSent = encoder[p].qSent
          /\ \A h \in Hotkeys :
                hpc[h] \in {"idle", "poll", "try"} /\ hpc'[h] # hpc[h] =>
                    /\ hpc'[h] # "comm"
                    /\ encoder' = encoder /\ notifier' = notifier
                    /\ globals' = globals
          /\ \A s \in Sessions :
                pc[s] = "body" /\ NotificationClosed(s) /\ pc'[s] # "body" =>
                    pc'[s] = "artifact" /\ encoder' = encoder]_vars

\* C3: a stop request and a notifier dismissal never both drive the stop
\* sequence of one encoder handle: while stop_recording_from_hotkey is
\* inside communicate on a handle, the recording thread is not inside
\* stop_recording on the same handle.
C3_SingleWinner ==
    \A s \in Sessions, h \in Hotkeys :
        ~(Stopping(s) /\ hpc[h] = "comm" /\ hproc[h] = stop_arg[s])

\* C4: with no stop request and no notifier dismissal, no session is still
\* in its monitoring loop once its elapsed polling intervals exceed
\* max_duration, and such a session ends with the path reported when the
\* artifact is non-empty.
C4_StopsAtMaxDuration ==
    \A s \in Handles :
        NoStopTrigger(s) =>
            /\ Recording(s) => counter[s] <= MaxDurationTicks
            /\ pc[s] = "done" /\ ~Running(s) /\ ArtifactOk(s) => PathReported(s)

\* C5: a finished session whose encoder has stopped reported the path if
\* and only if the output file exists and is not empty; otherwise it
\* reported None.
C5_OutcomeIsArtifactCheck ==
    \A s \in Handles :
        pc[s] = "done" /\ ~Running(s) =>
            /\ PathReported(s) <=> ArtifactOk(s)
            /\ ~ArtifactOk(s) => NoneReported(s)

\* C6: stop_recording_from_hotkey called while no recording thread is alive
\* returns False in that step and changes neither the globals, nor any
\* child process or file, nor any recording thread.
C6_StopWithoutSessionIsNoOp ==
    [][\A h \in Hotkeys :
          hpc[h] = "idle" /\ hpc'[h] # "idle" /\ ~SessionActive =>
              /\ hpc'[h] = "done" /\ hres'[h] = PyFalse
              /\ globals' = globals
              /\ children' = children
              /\ threads' = threads]_vars

\* A stop request was made and answered False before any start was made:
\* nothing was spawned and the globals are those of the import.
C6_Witness ==
    /\ hpc[1] = "done" /\ hres[1] = PyFalse /\ ~hactive[1]
    /\ \A s \in Sessions : cpc[s] \in {"idle", "unused"} /\ pc[s] = "unborn"
    /\ recording_process = None /\ notification_process = None

\* C7: `hotspeech stop` run as a second process while a session of the
\* first process is recording returns success.
C7_CrossProcessStop ==
    [][cli = Pending /\ cli' # Pending
         /\ (\E s \in Sessions : Recording(s) /\ Running(s))
       => cli' = PyTrue]_vars

\* C8: stop_recording_from_hotkey returns True exactly when a recording
\* thread was alive at the time of the call.
C8_StopFindsActiveSession ==
    \A h \in Hotkeys :
        hpc[h] = "done" => (hres[h] = PyTrue <=> hactive[h])

\* C9: on every stop route, a graceful stop that times out with the encoder
\* still running is followed by process.terminate() and a second wait.
C9_TimeoutEscalates ==
    [][/\ \A s \in Handles :
            pc[s] = "stop_q" /\ Running(stop_arg[s]) /\ pc'[s] # "stop_q" =>
                encoder'[stop_arg[s]].termSent /\ pc'[s] = "stop_term"
       /\ \A h \in Hotkeys :
            hpc[h] = "comm" /\ Running(hproc[h]) /\ hpc'[h] # "comm" =>
                encoder'[hproc[h]].termSent]_vars

\* C10: when the wait after process.terminate() times out, the session goes
\* on to the artifact check.
C10_UnconfirmedKillStillChecksArtifact ==
    [][\A s \in Handles :
          pc[s] = "stop_term" /\ Running(stop_arg[s]) /\ pc'[s] # "stop_term" =>
              pc'[s] = AfterStop(s)]_vars

----------------------------------------------------------------------------
\* The end of a session.

\* After the outcome was handed to on_complete: the except clause and the
\* steps of the finally clause.
Finishing(s) ==
    pc[s] \in {"except", "finally", "fin_wait", "fin_notif", "fin_reset"}
\* The recording thread has returned.
Terminal(s) == pc[s] = "done"
\* No recording thread is running and one has returned.
SlotReleased ==
    /\ \A s \in Sessions : pc[s] \in {"unborn", "created", "done"}
    /\ \E s \in Sessions : Terminal(s)

AliveChildren(s) ==
    {k \in {"encoder"} : Running(s)}
        \cup {k \in {"zenity"} : notifier[s] = "running"}
        \cup {k \in {"xmessage"} : s \in xmessage}

\* C12: once a session has finished, none of the processes spawned for it
\* (encoder, zenity notifier, xmessage notifier) is still alive.
C12_NoChildOutlivesSession ==
    \A s \in Sessions : Terminal(s) => AliveChildren(s) = {}

\* subprocess.Popen raised in start_recording: no encoder exists for s.
EncoderSpawnFailed(s) ==
    pc[s] \notin {"unborn", "created", "start"} /\ encoder[s].st = "none"
\* The encoder was spawned and show_recording_notification returned None:
\* zenity could not be spawned.
NotifierSpawnFailed(s) ==
    /\ pc[s] \notin {"unborn", "created", "start", "notify"}
    /\ encoder[s].st # "none"
    /\ notification_proc[s] = None

\* C13: a session whose encoder could not be spawned goes to the except and
\* finally clauses, reports None exactly once and ends with the globals
\* reset and its thread no longer alive.  A session whose notifier could not
\* be spawned enters the monitoring loop with the encoder untouched, never
\* calls stop_recording, and ends having reported the path if and only if
\* the output file is non-empty.
C13_SpawnFailures ==
    /\ [](\A s \in Sessions :
            /\ EncoderSpawnFailed(s) =>
                  /\ Finishing(s) \/ Terminal(s)
                  /\ ~Recording(s) /\ ~PathReported(s)
                  /\ Terminal(s) =>
                        /\ reported[s] = <<None>>
                        /\ recording_process = None /\ ~AlreadyRecording
            /\ NotifierSpawnFailed(s) =>
                  /\ ~Stopping(s)
                  /\ Terminal(s) => (PathReported(s) <=> ArtifactOk(s)))
    /\ [][\A s \in Sessions :
            pc[s] = "notify" /\ pc'[s] # "notify" =>
                Recording(s)' /\ encoder' = encoder /\ reported' = reported]_vars

\* No notifier could be spawned, and the session ended with the path
\* reported once.
C13_Witness ==
    /\ NotifierSpawnFailed(1) /\ notifier[1] = "none"
    /\ Terminal(1) /\ reported[1] = <<PATH>>

\* C14: a monitoring-loop iteration that finds the notifier exited while
\* the encoder is running enters the stop sequence on the encoder: the
\* session is inside communicate with the control byte delivered, and out
\* of the loop.
C14_NotifierExitStops ==
    [][\A s \in Sessions :
          /\ pc[s] = "body" /\ pc'[s] # "body"
          /\ NotificationClosed(s) /\ StopNeeded(recording_process)
          => /\ pc'[s] = "stop_q" /\ stop_arg'[s] = recording_process
             /\ encoder'[recording_process].qSent >= 1]_vars

----------------------------------------------------------------------------
\* Device resolution.

\* Every name an answer of pactl can put forward, and the sentinel.
DeviceNames ==
    {l.value : l \in InfoLines}
        \cup UNION {{l[i] : i \in 1..Len(l)} : l \in SourceLines}
        \cup {"default"}

\* The resolution has ended: the ffmpeg command line is being built or run.
Resolved == dpc \in {"spawn", "returned", "popen_raised"}

\* C15: whatever the two pactl commands answer (a default source, no
\* "Default Source:" line, no usable source line, an error), start_recording
\* goes through its resolution to the Popen call: default_source is bound to
\* a name when the resolution has ended, and ffmpeg was given that name once
\* Popen was called; no step of the resolution raises to the caller.
C15_ResolutionYieldsName ==
    /\ [](/\ Resolved => default_source # Unbound /\ default_source \in DeviceNames
          /\ dpc \in {"returned", "popen_raised"} => ffmpeg_input = default_source
          /\ dpc \in {"list", "query", "enumerate", "spawn"} => ENABLED StartRecording)
    /\ [][(dpc' # dpc /\ dpc \in {"query", "enumerate"}) =>
            dpc' \in {"enumerate", "spawn"}]_vars

\* Both commands failed, the sentinel was chosen and Popen was called on it.
C15_Witness ==
    /\ ~pactl_info.ok /\ ~pactl_sources.ok
    /\ dpc = "popen_raised" /\ ffmpeg_input = "default"

\* `pactl info` names a default source.
QuerySucceeds ==
    pactl_info.ok /\ FirstDefaultSourceLine(pactl_info.lines) # 0
\* `pactl list sources short` has a usable input source line.
EnumerationSucceeds ==
    pactl_sources.ok /\ FirstUsableInputLine(pactl_sources.lines) # 0

\* C16: the resolved name is the configured default source when the query
\* names one; otherwise (the query failed or has no such field) the first
\* enumerated input source when the enumeration has one; and "default"
\* only when that fails too.
C16_ThreeStepsInOrder ==
    Resolved =>
        default_source =
            IF QuerySucceeds
            THEN pactl_info.lines[FirstDefaultSourceLine(pactl_info.lines)].value
            ELSE IF EnumerationSucceeds
            THEN FirstInputSource(pactl_sources.lines)
            ELSE "default"

----------------------------------------------------------------------------
\* Transcription requests.

PrimaryCalls == {i \in 1..Len(calls) : calls[i].stage = "primary"}
FallbackCalls == {i \in 1..Len(calls) : calls[i].stage = "fallback"}
\* transcribe has returned its result.
TranscribeReturned == tpc = "returned"
\* The message is part of the error message.
Carries(error_message, msg) ==
    \E i \in 1..Len(error_message) : error_message[i] = msg

\* C17: a fallback invocation is made on a backend other than the one the
\* primary invocation of the same call was made on.
C17_FallbackIsOtherBackend ==
    \A i \in PrimaryCalls, j \in FallbackCalls :
        calls[j].backend # calls[i].backend

\* C18: a call goes idle -> primary -> {returned | fallback} -> returned; the
\* primary attempt makes exactly one backend invocation, it is the first; a
\* fallback invocation is made only after a primary invocation that raised,
\* and at most once: a call makes at most two backend invocations.
C18_AtMostTwoAttempts ==
    /\ [](/\ Len(calls) <= 2
          /\ tpc \in {"new", "idle", "primary"} => calls = <<>>
          /\ tpc \in {"fallback", "returned"} =>
                PrimaryCalls = {1} /\ FallbackCalls = 2..Len(calls)
          /\ tpc = "fallback" \/ FallbackCalls # {} => ~calls[1].outcome.ok
          /\ TranscribeReturned =>
                result.status = IF calls[Len(calls)].outcome.ok
                                THEN "done" ELSE "error")
    /\ [][tpc' # tpc =>
            <<tpc, tpc'>> \in {<<"new", "idle">>, <<"idle", "primary">>,
                               <<"primary", "returned">>, <<"primary", "fallback">>,
                               <<"fallback", "returned">>}]_vars

\* The primary attempt raised and the fallback attempt returned the text.
C18_Witness ==
    /\ TranscribeReturned /\ Len(calls) = 2
    /\ ~calls[1].outcome.ok /\ calls[2].outcome.ok
    /\ result.status = "done"

\* C19: a call whose primary backend is api, made while openai.api_key is
\* not set, has its primary invocation raise "OpenAI API key not set" and
\* makes a fallback invocation of the local backend; when that returns, the
\* result has status done, the text of the local backend and a model_used
\* that starts with "faster-whisper".
C19_ApiWithoutKeyFallsBackToLocal ==
    TranscribeReturned /\ calls[1].backend = "api" /\ ~openai_api_key =>
        /\ calls[1].outcome = Raised("OpenAI API key not set")
        /\ Len(calls) = 2 /\ calls[2].backend = "local"
        /\ calls[2].outcome.ok =>
              /\ result.status = "done"
              /\ result.transcription = calls[2].outcome.text
              /\ result.model_used = calls[2].model_used
              /\ StartsWithFasterWhisper(result.model_used)

\* C20: when the primary and the fallback invocation both raised, the result
\* has status error, transcription None and an error_message that carries
\* the message of the primary and the message of the fallback.
C20_BothCausesReported ==
    TranscribeReturned /\ Len(calls) = 2
        /\ ~calls[1].outcome.ok /\ ~calls[2].outcome.ok =>
            /\ result.status = "error"
            /\ result.transcription = Null
            /\ Carries(result.error_message, calls[1].outcome.msg)
            /\ Carries(result.error_message, calls[2].outcome.msg)

\* The api backend raised for the missing key, then the local backend raised.
C20_Witness ==
    /\ TranscribeReturned /\ Len(calls) = 2
    /\ calls[1].outcome = Raised("OpenAI API key not set")
    /\ calls[2].backend = "local" /\ ~calls[2].outcome.ok
    /\ result.status = "error"

\* The primary invocation was made on the local backend and raised.
LocalPrimaryFailed ==
    /\ TranscribeReturned /\ calls[1].backend = "local" /\ ~calls[1].outcome.ok

\* C21: a Transcriber configured with the local backend and an API key (in
\* the configuration or the environment) whose primary local invocation
\* raised makes exactly one fallback invocation, of the api backend.
C21_ApiFallbackWhenCredentialConfigured ==
    LocalPrimaryFailed /\ config.backend = "local" /\ config.api_key =>
        /\ Cardinality(FallbackCalls) = 1
        /\ \A j \in FallbackCalls : calls[j].backend = "api"

\* C22: when the primary invocation raised and the fallback backend is api
\* while openai.api_key is not set, no fallback invocation is made and the
\* result has status error, transcription None and an error_message that
\* carries the message of the primary.
C22_IneligibleFallbackFails ==
    /\ TranscribeReturned /\ ~calls[1].outcome.ok
    /\ FallbackBackend(transcriber.backend) = "api" /\ ~openai_api_key
    =>  /\ Len(calls) = 1
        /\ result.status = "error"
        /\ result.transcription = Null
        /\ Carries(result.error_message, calls[1].outcome.msg)

\* The local primary raised and the api fallback was not attempted.
C22_Witness ==
    /\ LocalPrimaryFailed /\ transcriber.backend = "local"
    /\ ~openai_api_key /\ Len(calls) = 1
    /\ result.status = "error"

\* The last backend invocation of the call returned text.
LastReturned == calls # <<>> /\ calls[Len(calls)].outcome.ok

\* C23: when the primary or the fallback invocation returned text, the
\* result has status done, that text as transcription and, as model_used,
\* the identifier reported by the backend that returned it.
C23_SuccessCarriesBackendAnswer ==
    TranscribeReturned /\ LastReturned =>
        /\ result.status = "done"
        /\ result.transcription = calls[Len(calls)].outcome.text
        /\ result.model_used = calls[Len(calls)].model_used

\* A model was requested, the local backend returned text, and model_used
\* is neither the requested nor the configured identifier.
C23_Witness ==
    /\ TranscribeReturned /\ LastReturned /\ request # NoModel
    /\ calls[Len(calls)].backend = "local"
    /\ result.status = "done"
    /\ result.model_used \notin {request, transcriber.model, config.model}

\* C24: without a model argument the primary invocation is made on the
\* configured backend; with a model argument that starts with "whisper-" it
\* is made on api, with one that starts with "faster-whisper" on local,
\* whatever the configured backend is.
C24_BackendResolution ==
    \A i \in PrimaryCalls :
        /\ request = NoModel => calls[i].backend = config.backend
        /\ StartsWithWhisperDash(request) => calls[i].backend = "api"
        /\ StartsWithFasterWhisper(request) => calls[i].backend = "local"

\* A Transcriber configured with local was asked for "whisper-1" and invoked
\* the api backend.
C24_Witness ==
    /\ PrimaryCalls # {} /\ config.backend = "local"
    /\ request = <<"whisper-1">> /\ calls[1].backend = "api"

\* The backend invocations that came as far as asking _get_model_for_backend.
NormalizingCalls == {i \in 1..Len(calls) : calls[i].model # NoModel}

\* C25: when a model was supplied to transcribe, the identifier the backend
\* of the primary attempt works with is the normalized form, for that
\* backend, of the supplied identifier.
C25_RequestedModelIsUsed ==
    LET \* What the engine is given: the identifier for the API, the size
        \* for WhisperModel.
        EngineModel(backend, model) ==
            IF backend = "local" THEN ModelSize(model) ELSE model
    IN  \A i \in PrimaryCalls \cap NormalizingCalls :
            request # NoModel =>
                EngineModel(calls[i].backend, calls[i].model) =
                    EngineModel(calls[i].backend,
                        GetModelForBackend(transcriber.model, calls[i].backend, request))

\* C26: the identifier _get_model_for_backend returns to a backend is in the
\* namespace of that backend: the identifier it was given when that is in
\* the namespace, the default of the backend otherwise.
C26_NormalizedIntoNamespace ==
    LET InNamespace(backend, model) ==
            IF backend = "api" THEN StartsWithWhisperDash(model)
            ELSE StartsWithFasterWhisper(model)
        DefaultModel(backend) ==
            IF backend = "api" THEN <<"whisper-1">>
            ELSE <<"faster-whisper", "small.en">>
    IN  \A i \in NormalizingCalls :
            /\ InNamespace(calls[i].backend, calls[i].model)
            /\ calls[i].model =
                    IF InNamespace(calls[i].backend, transcriber.model)
                    THEN transcriber.model ELSE DefaultModel(calls[i].backend)

\* C27: a local backend given the bare identifier "faster-whisper" works
\* with size small.en, an api backend given an identifier that starts with
\* "faster-whisper" works with "whisper-1", and a WARNING line has been
\* printed by then; the same holds for the identifier of the configuration
\* when the Transcriber is constructed; the rewrite raises nothing.
C27_RewriteWarns ==
    LET Warned(backend) ==
            \E i \in 1..Len(warnings) : warnings[i].backend = backend
    IN  /\ tpc # "new" /\ config.backend = "api"
                /\ StartsWithFasterWhisper(config.model) =>
            transcriber.model = <<"whisper-1">> /\ Warned("api")
        /\ \A i \in NormalizingCalls :
            /\ calls[i].backend = "local" /\ transcriber.model = <<"faster-whisper">> =>
                    ModelSize(calls[i].model) = <<"small.en">> /\ Warned("local")
            /\ calls[i].backend = "api" /\ StartsWithFasterWhisper(transcriber.model) =>
                    calls[i].model = <<"whisper-1">> /\ Warned("api")
        /\ tpc # "raised"

\* C28: whatever the engines raise inside a backend reaches transcribe as a
\* TranscriptionError, no exception leaves transcribe, and the result it
\* returns has status done or error.
C28_TranscribeNeverRaises ==
    /\ tpc # "raised"
    /\ \A i \in 1..Len(calls) :
            ~calls[i].outcome.ok => calls[i].outcome.type = "TranscriptionError"
    /\ TranscribeReturned => result.status \in {"done", "error"}

\* The api backend raised for the missing key and the engine of the local
\* backend raised a runtime error; transcribe returned status error.
C28_Witness ==
    /\ TranscribeReturned /\ Len(calls) = 2
    /\ calls[1].outcome = Raised("OpenAI API key not set")
    /\ calls[2].outcome = Raised("Local transcription failed: out of memory")
    /\ result.status = "error"

\* C29: transcribe is called only after on_complete was given the path of
\* the session; once the callback is through for a session with an
\* artifact, the table holds exactly one row, with the path and the fields
\* of the result transcribe returned, and the clipboard was given the
\* transcription if it is non-empty and the clipboard is enabled, nothing
\* otherwise; a session that reported None leaves no row and no backend
\* invocation.
C29_OneRecordPerCompletedSession ==
    /\ tpc \in {"primary", "fallback", "returned"} \/ calls # <<>> => PathReported(1)
    /\ db.rows # <<>> => TranscribeReturned
    /\ PathReported(1) /\ pc[1] \in {"except", "finally"} =>
        /\ Len(db.rows) = 1
        /\ db.rows[1].audio_path = PATH
        /\ db.rows[1].transcription = result.transcription
        /\ db.rows[1].model_used = result.model_used
        /\ db.rows[1].status = result.status
        /\ db.rows[1].error_message = result.error_message
        /\ clipboard = IF result.transcription \notin {Null, ""}
                            /\ app_config.clipboard_enabled
                       THEN <<result.transcription>> ELSE <<>>
    /\ NoneReported(1) => db.rows = <<>> /\ calls = <<>> /\ clipboard = <<>>

\* C30: a caller that passed the guard of start_recording_with_ui can always
\* take its next step, whatever the recording thread is doing; on_complete
\* is never called twice for a session, and a session whose thread has
\* ended had it called exactly once.
C30_ExactlyOneCompletion ==
    /\ \A c \in Sessions :
            cpc[c] \in {"passed", "created"} =>
                ENABLED (StartCreate(c) \/ StartThread(c))
    /\ \A s \in Sessions :
            /\ Len(reported[s]) <= 1
            /\ pc[s] = "done" => Len(reported[s]) = 1

\* C31: in the result transcribe returns, status done comes with no
\* error_message and status error with no transcription.
C31_ResultIsConsistent ==
    TranscribeReturned =>
        /\ result.status = "done" => result.error_message = <<>>
        /\ result.status = "error" => result.transcription = Null

\* C32: a step of a start_recording_with_ui call taken while the recording
\* thread of another session is alive is the rejection, and it changes
\* nothing but the position of the rejected caller: no thread is created,
\* no global is replaced, no child process is spawned; a rejected caller
\* has no thread and its on_complete is never called.
C32_RejectedStartHasNoEffect ==
    /\ [](\A c \in Sessions :
            cpc[c] = "rejected" => pc[c] = "unborn" /\ reported[c] = <<>>)
    /\ [][\A c \in Sessions :
            /\ \E s \in Sessions \ {c} : IsAlive(s)
            /\ cpc'[c] # cpc[c]
            => /\ cpc'[c] = "rejected"
               /\ UNCHANGED <<globals, threads, children>>]_vars

\* C33: a stop_recording_from_hotkey call that has ended returned True or
\* False, whatever the recording thread did meanwhile, and it returned True
\* only after writing the stop input to an encoder that was running.
C33_HotkeyStopIsRaceFree ==
    \A h \in Hotkeys :
        hpc[h] = "done" =>
            /\ hres[h] \in {PyTrue, PyFalse}
            /\ hres[h] = PyTrue =>
                    hproc[h] # None /\ encoder[hproc[h]].commStarted

\* C34: when the encoder of a session has exited without any stop input or
\* signal sent to it, and no stop was requested, a monitoring loop that
\* tests its condition goes to the artifact check and an iteration already
\* begun only sleeps once and returns to the test; the step that ends such
\* a session leaves none of its notifier processes alive.
C34_EncoderExitFinalizes ==
    [][LET SelfExited(s) ==
                /\ encoder[s].st = "exited" /\ ~encoder[s].commStarted
                /\ encoder[s].qSent = 0 /\ ~encoder[s].termSent
       IN  \A s \in Sessions :
            /\ SelfExited(s) /\ pc'[s] # pc[s]
            /\ \A h \in Hotkeys : hpc[h] \in {"idle", "unused"}
            => /\ pc[s] = "loop" => pc'[s] = "artifact"
               /\ pc[s] = "body" /\ ~NotificationClosed(s) =>
                    pc'[s] = "loop" /\ counter'[s] <= counter[s] + 1
               /\ pc'[s] = "done" => AliveChildren(s)' = {}]_vars

----------------------------------------------------------------------------
\* C35: model normalization is idempotent.  The identifier a backend got
\* from _get_model_for_backend is returned unchanged when it is given to
\* _get_model_for_backend again for the same backend, the same holds for
\* every backend and every model argument of the constructed transcriber,
\* and _adjust_models_for_backends applied to the model the constructor left
\* gives that model again.
C35_NormalizationIsIdempotent ==
    /\ \A i \in NormalizingCalls :
            GetModelForBackend(transcriber.model, calls[i].backend, calls[i].model)
                = calls[i].model
    /\ tpc # "new" =>
        /\ AdjustModelsForBackends(transcriber.backend, transcriber.model)
                = transcriber.model
        /\ \A b \in Backends, m \in Requests :
                GetModelForBackend(transcriber.model, b,
                                   GetModelForBackend(transcriber.model, b, m))
                    = GetModelForBackend(transcriber.model, b, m)

\* The constructor rewrote the configured model and a backend was given an
\* identifier that _get_model_for_backend rewrote as well.
C35_Witness ==
    /\ tpc # "new"
    /\ transcriber.model # config.model
    /\ \E i \in NormalizingCalls : calls[i].model # transcriber.model

----------------------------------------------------------------------------
\* C36: when /api/transcribe has re-transcribed a recording, the stored
\* record has the transcription, model_used, status and error_message of
\* the new result: no error_message of an earlier attempt beside a new
\* text, no text of an earlier attempt beside status error.
C36_StoredRecordIsNewResult ==
    [][web.pc = "transcribe" /\ web'.pc = "serving" =>
          LET stored == GetRecording(db'.rows, web.recording_id)
          IN  stored # <<>> =>
                /\ stored[1].transcription = result.transcription
                /\ stored[1].model_used = result.model_used
                /\ stored[1].status = result.status
                /\ stored[1].error_message = result.error_message]_vars

\* C37: a /api/set-default-model request with a model outside
\* {"whisper-1", "faster-whisper"} is answered 400; a request that is not
\* answered 200 leaves config["transcription"] and the transcriber as they
\* were; after a request that is answered 200 the two agree on model and
\* backend, and the backend is api for "whisper-1" and local for
\* "faster-whisper".
C37_SetDefaultModelIsAllOrNothing ==
    [][web'.served # web.served /\ web'.response.route = "/api/set-default-model" =>
          /\ web'.model \notin ValidModels => web'.response.status_code = 400
          /\ web'.response.status_code # 200 => UNCHANGED <<config, transcriber>>
          /\ web'.response.status_code = 200 =>
                /\ config'.model = web'.model
                /\ transcriber'.model = config'.model
                /\ transcriber'.backend = config'.backend
                /\ config'.backend = "api" <=> config'.model = <<"whisper-1">>
                /\ config'.backend = "local" <=> config'.model = <<"faster-whisper">>]_vars

\* C38: a cleanup_old_recordings(keep_last_n) call leaves at most
\* keep_last_n records, no deleted record was created after one that is
\* left, and the returned paths are those of the records it deleted.
C38_CleanupKeepsLastN ==
    [][cleanup.pc = "new" /\ cleanup'.pc = "done" =>
          LET before == {db.rows[i] : i \in 1..Len(db.rows)}
              left == {db'.rows[i] : i \in 1..Len(db'.rows)}
          IN  /\ Cardinality(left) <= cleanup'.keep_last_n
              /\ left \subseteq before
              /\ \A k \in left, o \in before \ left : k.created_at >= o.created_at
              /\ cleanup'.deleted_paths = {o.audio_path : o \in before \ left}]_vars

====
